---- MODULE Spec2Model ----
(***************************************************************************)
(* Model of rig-core/src/one_or_many.rs: OneOrMany<T>, the non-empty       *)
(* ordered collection (a mandatory `first` and a Vec `rest`), its three    *)
(* iterators, map / try_map / merge, and its serde Serialize/Deserialize.  *)
(***************************************************************************)
EXTENDS Integers, Sequences, FiniteSets, TLC

\* ------------------------------------------------------------------ bounds
\* Element payloads are 0..MaxElem.
MaxElem == 2
\* push / insert / merge / many are offered while the result has at most MaxLen items.
MaxLen == 3
\* merge is offered on outer lists of at most MaxOuter containers.
MaxOuter == 2
\* a wire sequence handed to deserialize has at most MaxWireLen elements.
MaxWireLen == 2
\* next() is called at most MaxAfterNone more times after it has returned None.
MaxAfterNone == 2
\* the consumer of an iter_mut traversal writes through at most MaxWrites of the
\* references it is handed.
MaxWrites == 1

Elems == 0..MaxElem

\* The element types T the container is instantiated with.
Types == {"String", "u64", "bool", "Struct"}

\* ------------------------------------------------------- Option and Result
None == <<>>
Some(x) == <<x>>
Ok(v) == [tag |-> "Ok", val |-> v]
Err(e) == [tag |-> "Err", err |-> e]

\* pub struct EmptyListError
EmptyListError == [kind |-> "EmptyListError"]

\* pub struct OneOrMany<T> { first: T, rest: Vec<T> }
OneOrMany(f, r) == [first |-> f, rest |-> r]

\* ------------------------------------------------------------- Vec helpers
\* Vec::push
vec_push(v, item) == Append(v, item)

\* Vec::insert: shifts the elements at and after index to the right; panics
\* (before touching the vector) when index > len.
vec_insert(v, index, element) ==
    IF index > Len(v)
    THEN [panicked |-> TRUE, vec |-> v]
    ELSE [panicked |-> FALSE,
          vec |-> SubSeq(v, 1, index) \o <<element>> \o SubSeq(v, index + 1, Len(v))]

\* std::vec::IntoIter::next / std::slice::Iter::next over the remaining items:
\* fused, front to back.
vec_next(v) ==
    IF v = <<>>
    THEN [item |-> None, rest |-> v]
    ELSE [item |-> Some(Head(v)), rest |-> Tail(v)]

\* --------------------------------------------------- OneOrMany<T> methods
first(self) == self.first

rest(self) == self.rest

push(self, item) == [self EXCEPT !.rest = vec_push(@, item)]

\* Mutant of insert: the head is replaced before the index is looked at, and
\* the old head is what goes into rest.
insert_partial_m(self, index, item) ==
    LET old_first == self.first
        r == vec_insert(self.rest, IF index = 0 THEN 0 ELSE index - 1, old_first)
    IN  [panicked |-> r.panicked, self |-> OneOrMany(item, r.vec)]

\* Mutant of insert: the index into rest is not shifted by one.
insert_m(self, index, item) ==
    IF index = 0
    THEN LET old_first == self.first
             r == vec_insert(self.rest, 0, old_first)
         IN  [panicked |-> r.panicked, self |-> OneOrMany(item, r.vec)]
    ELSE LET r == vec_insert(self.rest, index, item)
         IN  [panicked |-> r.panicked, self |-> OneOrMany(self.first, r.vec)]

insert(self, index, item) ==
    IF index = 0
    THEN LET old_first == self.first
             r == vec_insert(self.rest, 0, old_first)
         IN  [panicked |-> r.panicked, self |-> OneOrMany(item, r.vec)]
    ELSE LET r == vec_insert(self.rest, index - 1, item)
         IN  [panicked |-> r.panicked, self |-> OneOrMany(self.first, r.vec)]

\* Mutant of len: the head is not counted.
len_m(self) == Len(self.rest)

len(self) == 1 + Len(self.rest)

is_empty(self) == FALSE

one(item) == OneOrMany(item, <<>>)

\* Mutant of many: the iterator is collected from the start again.
many_m(items) ==
    LET n == vec_next(items)
    IN  IF n.item = None
        THEN Err(EmptyListError)
        ELSE Ok(OneOrMany(n.item[1], items))

many(items) ==
    LET n == vec_next(items)
    IN  IF n.item = None
        THEN Err(EmptyListError)
        ELSE Ok(OneOrMany(n.item[1], n.rest))

\* ---------------------------------------------------------------- iterators
\* Iter { first: Option<&T>, rest: slice::Iter<T> }: shared references are
\* modelled by the values they point to (the borrow freezes the container).
iter(self) == [first |-> Some(self.first), rest |-> self.rest]

\* Mutant of Iter::next: the tail is drained before the head is handed out.
Iter_next_m(it) ==
    LET n == vec_next(it.rest)
    IN  IF n.item # None
        THEN [item |-> n.item, it |-> [it EXCEPT !.rest = n.rest]]
        ELSE [item |-> it.first, it |-> [it EXCEPT !.first = None]]

Iter_next(it) ==
    IF it.first # None
    THEN [item |-> it.first, it |-> [it EXCEPT !.first = None]]
    ELSE LET n == vec_next(it.rest)
         IN  [item |-> n.item, it |-> [it EXCEPT !.rest = n.rest]]

\* IntoIter { first: Option<T>, rest: vec::IntoIter<T> }: owned values.
\* Mutant of into_iter: the head is left out.
into_iter_m(self) == [first |-> None, rest |-> self.rest]

into_iter(self) == [first |-> Some(self.first), rest |-> self.rest]

IntoIter_next(it) ==
    IF it.first # None
    THEN [item |-> it.first, it |-> [it EXCEPT !.first = None]]
    ELSE LET n == vec_next(it.rest)
         IN  [item |-> n.item, it |-> [it EXCEPT !.rest = n.rest]]

\* IterMut { first: Option<&mut T>, rest: slice::IterMut<T> }: a mutable
\* reference is the place it points to, place 0 being self.first and place i
\* being self.rest[i - 1].
iter_mut(self) == [first |-> Some(0), rest |-> [i \in 1..Len(self.rest) |-> i]]

IterMut_next(it) ==
    IF it.first # None
    THEN [item |-> it.first, it |-> [it EXCEPT !.first = None]]
    ELSE LET n == vec_next(it.rest)
         IN  [item |-> n.item, it |-> [it EXCEPT !.rest = n.rest]]

\* Read and write through a place of the container.
deref(self, place) == IF place = 0 THEN self.first ELSE self.rest[place]

assign(self, place, v) ==
    IF place = 0 THEN [self EXCEPT !.first = v] ELSE [self EXCEPT !.rest[place] = v]

\* Iterator::collect::<Vec<_>>() / a `for` loop over self.iter()
RECURSIVE collect_iter(_)
collect_iter(it) ==
    LET n == Iter_next(it)
    IN  IF n.item = None THEN <<>> ELSE <<n.item[1]>> \o collect_iter(n.it)

RECURSIVE collect_into_iter(_)
collect_into_iter(it) ==
    LET n == IntoIter_next(it)
    IN  IF n.item = None THEN <<>> ELSE <<n.item[1]>> \o collect_into_iter(n.it)

\* ------------------------------------------------- merge / map / try_map
\* one_or_many_items.into_iter().flat_map(|one_or_many| one_or_many.into_iter()).collect()
RECURSIVE flat_map_into_iter(_)
flat_map_into_iter(one_or_many_items) ==
    LET n == vec_next(one_or_many_items)
    IN  IF n.item = None
        THEN <<>>
        ELSE collect_into_iter(into_iter(n.item[1])) \o flat_map_into_iter(n.rest)

merge(one_or_many_items) == many(flat_map_into_iter(one_or_many_items))

\* self.rest.into_iter().map(op).collect(): op is an FnMut, so besides the
\* mapped vector the model returns the arguments op was called with, in order.
RECURSIVE vec_map(_, _)
vec_map(v, op) ==
    LET n == vec_next(v)
    IN  IF n.item = None
        THEN [vec |-> <<>>, calls |-> <<>>]
        ELSE LET r == vec_map(n.rest, op)
             IN  [vec |-> <<op[n.item[1]]>> \o r.vec, calls |-> <<n.item[1]>> \o r.calls]

\* Mutant of map: the tail is mapped before the head.
map_m(self, op) ==
    LET r == vec_map(self.rest, op)
    IN  [out |-> OneOrMany(op[self.first], r.vec), calls |-> r.calls \o <<self.first>>]

map(self, op) ==
    LET r == vec_map(self.rest, op)
    IN  [out |-> OneOrMany(op[self.first], r.vec), calls |-> <<self.first>> \o r.calls]

\* Mutant of the fallible collect: every element is mapped before the first
\* error is looked for.
RECURSIVE vec_try_map_m(_, _)
vec_try_map_m(v, op) ==
    LET n == vec_next(v)
    IN  IF n.item = None
        THEN [res |-> Ok(<<>>), calls |-> <<>>]
        ELSE LET y == op[n.item[1]]
                 r == vec_try_map_m(n.rest, op)
             IN  [res |-> IF y.tag = "Err" THEN Err(y.err)
                          ELSE IF r.res.tag = "Err" THEN r.res
                          ELSE Ok(<<y.val>> \o r.res.val),
                  calls |-> <<n.item[1]>> \o r.calls]

\* self.rest.into_iter().map(op).collect::<Result<Vec<_>, E>>(): the collect
\* stops pulling from the iterator at the first Err.
RECURSIVE vec_try_map(_, _)
vec_try_map(v, op) ==
    LET n == vec_next(v)
    IN  IF n.item = None
        THEN [res |-> Ok(<<>>), calls |-> <<>>]
        ELSE LET y == op[n.item[1]]
             IN  IF y.tag = "Err"
                 THEN [res |-> Err(y.err), calls |-> <<n.item[1]>>]
                 ELSE LET r == vec_try_map(n.rest, op)
                      IN  [res |-> IF r.res.tag = "Err" THEN r.res
                                   ELSE Ok(<<y.val>> \o r.res.val),
                           calls |-> <<n.item[1]>> \o r.calls]

try_map(self, op) ==
    LET y == op[self.first]
    IN  IF y.tag = "Err"
        THEN [res |-> Err(y.err), calls |-> <<self.first>>]
        ELSE LET r == vec_try_map(self.rest, op)
             IN  [res |-> IF r.res.tag = "Err" THEN r.res
                          ELSE Ok(OneOrMany(y.val, r.res.val)),
                  calls |-> <<self.first>> \o r.calls]

\* ----------------------------------------------------------------- codec
\* A wire value is a scalar or keyed value [shape, val] or a sequence
\* [shape |-> "seq", items].
WireAtom(shape, v) == [shape |-> shape, val |-> v]
WireSeq(items) == [shape |-> "seq", items |-> items]

\* The wire shape the element type T encodes to and decodes from.
ShapeOf(t) ==
    CASE t = "String" -> "str"
      [] t = "u64" -> "num"
      [] t = "bool" -> "bool"
      [] t = "Struct" -> "map"

\* T::serialize / T::deserialize of the element type.
serialize_T(t, e) == WireAtom(ShapeOf(t), e)

invalid_type(shape) == [kind |-> "invalid_type", unexpected |-> shape]
invalid_length(n) == [kind |-> "invalid_length", len |-> n]

deserialize_T(t, w) ==
    IF w.shape = ShapeOf(t) THEN Ok(w.val) ELSE Err(invalid_type(w.shape))

\* for e in self.iter() { seq.serialize_element(e)?; }
RECURSIVE serialize_elements(_, _)
serialize_elements(t, it) ==
    LET n == Iter_next(it)
    IN  IF n.item = None
        THEN <<>>
        ELSE <<serialize_T(t, n.item[1])>> \o serialize_elements(t, n.it)

\* Mutant of serialize: a one-element container is written as the bare element.
serialize_m(t, self) ==
    IF self.rest = <<>>
    THEN serialize_T(t, self.first)
    ELSE WireSeq(serialize_elements(t, iter(self)))

serialize(t, self) == WireSeq(serialize_elements(t, iter(self)))

\* while let Some(value) = seq.next_element()? { rest.push(value); }
RECURSIVE next_elements(_, _)
next_elements(t, seq) ==
    LET n == vec_next(seq)
    IN  IF n.item = None
        THEN Ok(<<>>)
        ELSE LET value == deserialize_T(t, n.item[1])
             IN  IF value.tag = "Err"
                 THEN value
                 ELSE LET r == next_elements(t, n.rest)
                      IN  IF r.tag = "Err" THEN r ELSE Ok(<<value.val>> \o r.val)

\* Mutant of visit_seq: rest is read from the start of the sequence again.
visit_seq_m(t, seq) ==
    LET n == vec_next(seq)
    IN  IF n.item = None
        THEN Err(invalid_length(0))
        ELSE LET f == deserialize_T(t, n.item[1])
             IN  IF f.tag = "Err"
                 THEN f
                 ELSE LET r == next_elements(t, seq)
                      IN  IF r.tag = "Err" THEN r ELSE Ok(OneOrMany(f.val, r.val))

visit_seq(t, seq) ==
    LET n == vec_next(seq)
    IN  IF n.item = None
        THEN Err(invalid_length(0))
        ELSE LET f == deserialize_T(t, n.item[1])
             IN  IF f.tag = "Err"
                 THEN f
                 ELSE LET r == next_elements(t, n.rest)
                      IN  IF r.tag = "Err" THEN r ELSE Ok(OneOrMany(f.val, r.val))

visit_str(t, value) ==
    LET f == deserialize_T(t, WireAtom("str", value))
    IN  IF f.tag = "Err" THEN f ELSE Ok(one(f.val))

visit_string(t, value) ==
    LET f == deserialize_T(t, WireAtom("str", value))
    IN  IF f.tag = "Err" THEN f ELSE Ok(one(f.val))

visit_map(t, m) ==
    LET f == deserialize_T(t, WireAtom("map", m))
    IN  IF f.tag = "Err" THEN f ELSE Ok(one(f.val))

\* deserializer.deserialize_any(OneOrManyVisitor): the deserializer calls the
\* visitor method of the value's shape (visit_string when it owns the string);
\* a method the visitor does not define is serde's default, an invalid-type error.
deserialize(t, w, owned) ==
    CASE w.shape = "seq" -> visit_seq(t, w.items)
      [] w.shape = "str" -> IF owned THEN visit_string(t, w.val) ELSE visit_str(t, w.val)
      [] w.shape = "map" -> visit_map(t, w.val)
      [] OTHER -> Err(invalid_type(w.shape))

\* ============================================================ state
VARIABLES
    oom,    \* the container under observation
    ty,     \* its element type T
    live,   \* TRUE while the container exists (constructed and not moved out of)
    trav,   \* the iterator borrowed from / made of the container, if any
    last    \* the most recent operation: its arguments and what it returned

vars == <<oom, ty, live, trav, last>>

\* ------------------------------------------------------------ input sets
SeqsUpTo(S, n) == UNION {[1..k -> S] : k \in 0..n}

\* Closures handed to map: a constant function and the rotations of Elems.
MapOps ==
    {[e \in Elems |-> 0]} \cup {[e \in Elems |-> (e + k) % (MaxElem + 1)] : k \in Elems}

\* Closures handed to try_map: fail, with an error naming the element, on the
\* elements of a set of at most two, and succeed with the successor on the others.
OpError(e) == [kind |-> "OpError", of |-> e]

TryOps ==
    {[e \in Elems |-> IF e \in F THEN Err(OpError(e)) ELSE Ok((e + 1) % (MaxElem + 1))] :
        F \in {G \in SUBSET Elems : Cardinality(G) <= 2}}

\* Containers handed to merge next to the observed one.
MergePool ==
    {one(x) : x \in Elems} \cup {OneOrMany(x, <<y>>) : x \in Elems, y \in Elems}

MergeArgs ==
    IF live
    THEN {<<oom>> \o o : o \in SeqsUpTo({one(x) : x \in Elems}, MaxOuter - 1)} \cup
         {o \o <<oom>> : o \in SeqsUpTo({one(x) : x \in Elems}, MaxOuter - 1)}
    ELSE SeqsUpTo(MergePool, MaxOuter)

WireShapes == {"str", "num", "bool", "map"}

WireAtoms == {WireAtom(sh, v) : sh \in WireShapes, v \in Elems}

WireValues == WireAtoms \cup {WireSeq(items) : items \in SeqsUpTo(WireAtoms, MaxWireLen)}

NoTrav == [mode |-> "none"]

\* No container yet: `oom` holds a placeholder.
Vacant == one(0)

\* ------------------------------------------------------------------ Init
Init ==
    /\ oom = Vacant
    /\ ty = "String"
    /\ live = FALSE
    /\ trav = NoTrav
    /\ last = [op |-> "init"]

\* ------------------------------------------------------- constructors
One ==
    /\ ~live
    /\ last.op = "init"
    /\ trav.mode = "none"
    /\ \E t \in Types, item \in Elems :
          /\ oom' = one(item)
          /\ ty' = t
          /\ last' = [op |-> "one", item |-> item]
    /\ live' = TRUE
    /\ UNCHANGED trav

Many ==
    /\ ~live
    /\ last.op = "init"
    /\ trav.mode = "none"
    /\ \E t \in Types, items \in SeqsUpTo(Elems, MaxLen) :
          LET r == many(items)
          IN  /\ oom' = IF r.tag = "Ok" THEN r.val ELSE oom
              /\ live' = (r.tag = "Ok")
              /\ last' = [op |-> "many", items |-> items, res |-> r]
              /\ ty' = t
    /\ UNCHANGED trav

\* merge consumes its argument: the observed container, when it is part of the
\* argument, is replaced by the result.
Merge ==
    /\ trav.mode = "none"
    /\ live \/ last.op = "init"
    /\ \E one_or_many_items \in MergeArgs :
          LET r == merge(one_or_many_items)
          IN  /\ r.tag = "Ok" => len(r.val) <= MaxLen
              /\ oom' = IF r.tag = "Ok" THEN r.val ELSE Vacant
              /\ live' = (r.tag = "Ok")
              /\ last' = [op |-> "merge", items |-> one_or_many_items, res |-> r]
    /\ UNCHANGED <<ty, trav>>

Deserialize ==
    /\ ~live
    /\ last.op = "init"
    /\ trav.mode = "none"
    /\ \E t \in Types, w \in WireValues, owned \in BOOLEAN :
          LET r == deserialize(t, w, owned)
          IN  /\ oom' = IF r.tag = "Ok" THEN r.val ELSE oom
              /\ live' = (r.tag = "Ok")
              /\ last' = [op |-> "deserialize", wire |-> w, owned |-> owned, res |-> r]
              /\ ty' = t
    /\ UNCHANGED trav

\* ------------------------------------------------------------ mutators
Push ==
    /\ live
    /\ trav.mode = "none"
    /\ len(oom) < MaxLen
    /\ \E item \in Elems :
          /\ oom' = push(oom, item)
          /\ last' = [op |-> "push", pre |-> oom, item |-> item]
    /\ UNCHANGED <<ty, live, trav>>

\* A panicking insert unwinds out of the call; the container is what the call
\* left behind.
Insert ==
    /\ live
    /\ trav.mode = "none"
    /\ \E index \in 0..(MaxLen + 1), item \in Elems :
          /\ len(oom) < MaxLen \/ index > len(oom)
          /\ LET r == insert(oom, index, item)
             IN  /\ oom' = r.self
                 /\ last' = [op |-> "insert", pre |-> oom, index |-> index,
                             item |-> item, panicked |-> r.panicked]
    /\ UNCHANGED <<ty, live, trav>>

\* ---------------------------------------------------------- transforms
Map ==
    /\ live
    /\ trav.mode = "none"
    /\ \E op \in MapOps :
          LET r == map(oom, op)
          IN  /\ oom' = r.out
              /\ last' = [op |-> "map", pre |-> oom, f |-> op, calls |-> r.calls,
                          out |-> r.out]
    /\ UNCHANGED <<ty, live, trav>>

\* try_map takes self by value: after a failure no container is left.
TryMap ==
    /\ live
    /\ trav.mode = "none"
    /\ \E op \in TryOps :
          LET r == try_map(oom, op)
          IN  /\ oom' = IF r.res.tag = "Ok" THEN r.res.val ELSE Vacant
              /\ live' = (r.res.tag = "Ok")
              /\ last' = [op |-> "try_map", pre |-> oom, f |-> op, calls |-> r.calls,
                          res |-> r.res]
    /\ UNCHANGED <<ty, trav>>

\* `from` is the wire value the container was decoded from, when the encoding
\* directly follows the decoding.
Serialize ==
    /\ live
    /\ trav.mode = "none"
    /\ last.op # "serialize"
    /\ last' = [op |-> "serialize", pre |-> oom, out |-> serialize(ty, oom),
                from |-> IF last.op = "deserialize" THEN Some(last.wire) ELSE None]
    /\ UNCHANGED <<oom, ty, live, trav>>

\* ------------------------------------------------------------ traversals
\* The logical sequence of a container.
Logical(self) == <<self.first>> \o self.rest

\* `src` is the logical sequence when the iterator was made, `out` the values
\* yielded so far, `ret` what the latest next() returned, `after` the number of
\* next() calls made after a None, `held` the places iter_mut has handed out,
\* `written` whether the latest of them was written through, `writes` the
\* number of writes.
NewTrav(mode, it, self) ==
    [mode |-> mode, it |-> it, src |-> Logical(self), out |-> <<>>, ret |-> None,
     calls |-> 0, after |-> 0, held |-> <<>>, written |-> FALSE, writes |-> 0]

\* The bookkeeping of one next() call that returned `item`, a value `v` when Some.
Stepped(n, v) ==
    [trav EXCEPT !.it = n.it,
                 !.out = IF n.item = None THEN @ ELSE Append(@, v),
                 !.ret = n.item,
                 !.calls = IF n.item = None THEN @ ELSE @ + 1,
                 !.after = IF n.item = None THEN @ + 1 ELSE @,
                 !.held = IF n.item = None \/ trav.mode # "iter_mut" THEN @
                          ELSE Append(@, n.item[1]),
                 !.written = FALSE]

StartIter ==
    /\ live
    /\ trav.mode = "none"
    /\ trav' = NewTrav("iter", iter(oom), oom)
    /\ last' = [op |-> "iter"]
    /\ UNCHANGED <<oom, ty, live>>

StartIterMut ==
    /\ live
    /\ trav.mode = "none"
    /\ trav' = NewTrav("iter_mut", iter_mut(oom), oom)
    /\ last' = [op |-> "iter_mut"]
    /\ UNCHANGED <<oom, ty, live>>

\* into_iter takes self by value: the container is moved into the iterator.
StartIntoIter ==
    /\ live
    /\ trav.mode = "none"
    /\ trav' = NewTrav("into_iter", into_iter(oom), oom)
    /\ oom' = Vacant
    /\ live' = FALSE
    /\ last' = [op |-> "into_iter"]
    /\ UNCHANGED ty

IterNext ==
    /\ trav.mode = "iter"
    /\ trav.after <= MaxAfterNone
    /\ LET n == Iter_next(trav.it)
       IN  trav' = Stepped(n, IF n.item = None THEN 0 ELSE n.item[1])
    /\ UNCHANGED <<oom, ty, live, last>>

IntoIterNext ==
    /\ trav.mode = "into_iter"
    /\ trav.after <= MaxAfterNone
    /\ LET n == IntoIter_next(trav.it)
       IN  trav' = Stepped(n, IF n.item = None THEN 0 ELSE n.item[1])
    /\ UNCHANGED <<oom, ty, live, last>>

IterMutNext ==
    /\ trav.mode = "iter_mut"
    /\ trav.after <= MaxAfterNone
    /\ LET n == IterMut_next(trav.it)
       IN  trav' = Stepped(n, IF n.item = None THEN 0 ELSE deref(oom, n.item[1]))
    /\ UNCHANGED <<oom, ty, live, last>>

\* The consumer writes, once, through the mutable reference it was just handed.
IterMutWrite ==
    /\ trav.mode = "iter_mut"
    /\ trav.held # <<>>
    /\ ~trav.written
    /\ trav.writes < MaxWrites
    /\ LET place == trav.held[Len(trav.held)]
           v == (deref(oom, place) + 1) % (MaxElem + 1)
       IN  oom' = assign(oom, place, v)
    /\ trav' = [trav EXCEPT !.written = TRUE, !.writes = @ + 1]
    /\ UNCHANGED <<ty, live, last>>

\* The iterator is dropped: a borrow ends, an owning iterator frees its items.
EndIter ==
    /\ trav.mode # "none"
    /\ trav' = NoTrav
    /\ last' = [op |-> "end_iter"]
    /\ UNCHANGED <<oom, ty, live>>

\* The container, or the result of a failed call, goes out of scope.
Drop ==
    /\ trav.mode = "none"
    /\ last.op # "init"
    /\ oom' = Vacant
    /\ ty' = "String"
    /\ live' = FALSE
    /\ last' = [op |-> "init"]
    /\ UNCHANGED trav

\* ------------------------------------------------------------------ Next
Next ==
    \/ One
    \/ Many
    \/ Merge
    \/ Deserialize
    \/ Push
    \/ Insert
    \/ Map
    \/ TryMap
    \/ Serialize
    \/ StartIter
    \/ StartIterMut
    \/ StartIntoIter
    \/ IterNext
    \/ IntoIterNext
    \/ IterMutNext
    \/ IterMutWrite
    \/ EndIter
    \/ Drop

Spec == Init /\ [][Next]_vars

\* ================================================================ claims
\* The items a by-reference, a by-value and a by-mutable-reference traversal
\* of a container yield, read off the iterators' next().
YieldIter(self) == collect_iter(iter(self))

YieldIntoIter(self) == collect_into_iter(into_iter(self))

RECURSIVE PlacesIterMut(_)
PlacesIterMut(it) ==
    LET n == IterMut_next(it)
    IN  IF n.item = None THEN <<>> ELSE <<n.item[1]>> \o PlacesIterMut(n.it)

YieldIterMut(self) ==
    LET ps == PlacesIterMut(iter_mut(self))
    IN  [i \in 1..Len(ps) |-> deref(self, ps[i])]

\* C1: every container reached from one / a successful many by push, in-bounds
\* insert, map, successful try_map and successful merge (and by decoding) has
\* len() = 1 + the number of elements of rest = the number of items a traversal
\* yields, which is at least 1, and is_empty() is false.
C1_NonEmpty ==
    live =>
        /\ oom.first \in Elems
        /\ oom.rest \in Seq(Elems)
        /\ len(oom) = 1 + Len(oom.rest)
        /\ len(oom) = Len(YieldIter(oom))
        /\ len(oom) >= 1
        /\ is_empty(oom) = FALSE

C1_Witness ==
    /\ live
    /\ last.op = "merge"
    /\ len(oom) = 3
    /\ Len(last.items) = 2

\* C2: many(v) is Err(EmptyListError) exactly when v is empty; for a non-empty
\* v it is Ok, len() is the length of v, first is v[0], rest is v[1..], and
\* every traversal yields v in order.
C2_Many ==
    last.op = "many" =>
        LET v == last.items
            r == last.res
        IN  /\ (r.tag = "Err") <=> (v = <<>>)
            /\ r.tag = "Err" => r.err = EmptyListError /\ ~live
            /\ v # <<>> =>
                /\ r.tag = "Ok"
                /\ live /\ oom = r.val
                /\ len(r.val) = Len(v)
                /\ r.val.first = v[1]
                /\ r.val.rest = [i \in 1..(Len(v) - 1) |-> v[i + 1]]
                /\ YieldIter(r.val) = v
                /\ YieldIntoIter(r.val) = v
                /\ YieldIterMut(r.val) = v

C2_Witness ==
    /\ last.op = "many"
    /\ last.res.tag = "Ok"
    /\ Len(last.items) = 3
    /\ last.items[1] # last.items[2]

\* The concatenation of the first k containers' logical sequences, and the sum
\* of their lengths.
RECURSIVE ConcatTo(_, _)
ConcatTo(cs, k) ==
    IF k = 0 THEN <<>> ELSE ConcatTo(cs, k - 1) \o <<cs[k].first>> \o cs[k].rest

RECURSIVE SumLenTo(_, _)
SumLenTo(cs, k) == IF k = 0 THEN 0 ELSE SumLenTo(cs, k - 1) + len(cs[k])

\* C3: merge(cs) is Err(EmptyListError) exactly when the outer list cs is
\* empty; otherwise it is Ok, its logical sequence is the concatenation in
\* input order of the inputs' [first] ++ rest, and its len() is the sum of the
\* inputs' len().
C3_Merge ==
    last.op = "merge" =>
        LET cs == last.items
            r == last.res
        IN  /\ (r.tag = "Err") <=> (cs = <<>>)
            /\ r.tag = "Err" => r.err = EmptyListError /\ ~live
            /\ cs # <<>> =>
                /\ r.tag = "Ok"
                /\ live /\ oom = r.val
                /\ Logical(r.val) = ConcatTo(cs, Len(cs))
                /\ YieldIter(r.val) = ConcatTo(cs, Len(cs))
                /\ len(r.val) = SumLenTo(cs, Len(cs))

C3_Witness ==
    /\ last.op = "merge"
    /\ last.res.tag = "Ok"
    /\ Len(last.items) = 2
    /\ len(last.items[1]) = 2
    /\ len(last.items[2]) = 1
    /\ last.items[1].first # last.items[2].first

\* C4: encoding emits a sequence, first followed by the elements of rest in
\* order, of length len() >= 1, never a bare scalar or keyed value, also for a
\* container decoded from a scalar or keyed value; and encoding what a
\* non-empty sequence decoded to reproduces that sequence.
C4_Encode ==
    last.op = "serialize" =>
        LET c == last.pre
            w == last.out
        IN  /\ w.shape = "seq"
            /\ Len(w.items) = len(c)
            /\ Len(w.items) >= 1
            /\ w.items[1] = serialize_T(ty, c.first)
            /\ \A i \in 1..Len(c.rest) : w.items[i + 1] = serialize_T(ty, c.rest[i])
            /\ last.from # None =>
                LET s == last.from[1]
                IN  IF s.shape = "seq" THEN w = s ELSE w = WireSeq(<<s>>)

C4_Witness ==
    /\ last.op = "serialize"
    /\ last.from # None
    /\ last.from[1].shape = "seq"
    /\ Len(last.from[1].items) = 2
    /\ last.from[1].items[1] # last.from[1].items[2]

\* C5: decoding a single non-sequence wire value (any scalar shape from which
\* T can be decoded: a string, a number, a boolean; or a keyed value) yields a
\* one-element container whose sole element is T decoded from that value.
C5_ScalarDecode ==
    (/\ last.op = "deserialize"
     /\ last.wire.shape # "seq"
     /\ deserialize_T(ty, last.wire).tag = "Ok") =>
        /\ last.res.tag = "Ok"
        /\ len(last.res.val) = 1
        /\ last.res.val.rest = <<>>
        /\ last.res.val.first = deserialize_T(ty, last.wire).val

\* C6: decoding an empty sequence produces no container and fails with the
\* invalid-length error for length 0; decoding a sequence of n >= 1 elements
\* (each decodable as T) produces first = element 0 and rest = elements
\* 1..n-1 in order.
C6_SeqDecode ==
    (last.op = "deserialize" /\ last.wire.shape = "seq") =>
        LET s == last.wire.items
            r == last.res
        IN  /\ s = <<>> => r = Err(invalid_length(0)) /\ ~live
            /\ r.tag = "Ok" => s # <<>>
            /\ (s # <<>> /\ \A i \in 1..Len(s) : s[i].shape = ShapeOf(ty)) =>
                /\ r.tag = "Ok"
                /\ live /\ oom = r.val
                /\ r.val.first = s[1].val
                /\ r.val.rest = [i \in 1..(Len(s) - 1) |-> s[i + 1].val]

C6_Witness ==
    /\ last.op = "deserialize"
    /\ last.wire.shape = "seq"
    /\ last.res.tag = "Ok"
    /\ Len(last.wire.items) = 2
    /\ last.wire.items[1] # last.wire.items[2]

\* The positions of a sequence at which op fails, and the least of a set of
\* positions.
FailsAt(s, op) == {i \in 1..Len(s) : op[s[i]].tag = "Err"}

Least(S) == CHOOSE k \in S : \A j \in S : k <= j

\* C7: try_map(op) calls op on first, rest[0], rest[1], ... and stops at the
\* first failure: when op fails on the k-th element it has been called exactly
\* k times, on the first k elements, the call returns exactly that error and no
\* container; when op fails nowhere it has been called once per element and
\* the result has the length of the input.
C7_TryMap ==
    last.op = "try_map" =>
        LET s == Logical(last.pre)
            fails == FailsAt(s, last.f)
        IN  IF fails # {}
            THEN LET k == Least(fails)
                 IN  /\ Len(last.calls) = k
                     /\ last.calls = SubSeq(s, 1, k)
                     /\ last.res = Err(last.f[s[k]].err)
                     /\ ~live
            ELSE /\ last.calls = s
                 /\ last.res.tag = "Ok"
                 /\ len(last.res.val) = len(last.pre)
                 /\ live /\ oom = last.res.val

C7_Witness ==
    /\ last.op = "try_map"
    /\ last.res.tag = "Err"
    /\ len(last.pre) = 3
    /\ Len(last.calls) = 2

\* C8: insert(index, item) with 0 <= index <= len() puts item at position index
\* of [first] ++ rest, keeps the previous elements in their order and grows
\* len() by exactly 1; for index 0 the item becomes first and the old first
\* becomes rest[0].
C8_Insert ==
    (last.op = "insert" /\ last.index <= len(last.pre)) =>
        LET s == Logical(last.pre)
            i == last.index
        IN  /\ ~last.panicked
            /\ Logical(oom) = SubSeq(s, 1, i) \o <<last.item>> \o SubSeq(s, i + 1, Len(s))
            /\ len(oom) = len(last.pre) + 1
            /\ i = 0 => /\ oom.first = last.item
                        /\ oom.rest = <<last.pre.first>> \o last.pre.rest

C8_Witness ==
    /\ last.op = "insert"
    /\ last.index = 0
    /\ len(last.pre) = 2
    /\ last.pre.first # last.item
    /\ last.pre.first # last.pre.rest[1]

\* C9: each of iter, iter_mut and into_iter yields first, rest[0], rest[1], ...
\* in that order, every element exactly once: what has been yielded is always
\* the prefix of the container's logical sequence, with one item per successful
\* next(); iter_mut hands out the places 0, 1, 2, ... once each; and once
\* next() has returned None the traversal has yielded exactly len() items and
\* every further next() returns None as well.
C9_Iteration ==
    trav.mode # "none" =>
        /\ trav.calls = Len(trav.out)
        /\ trav.calls <= Len(trav.src)
        /\ trav.out = SubSeq(trav.src, 1, trav.calls)
        /\ trav.mode = "iter_mut" => trav.held = [i \in 1..trav.calls |-> i - 1]
        /\ trav.after > 0 =>
            /\ trav.ret = None
            /\ trav.out = trav.src

C9_Witness ==
    /\ trav.mode = "iter_mut"
    /\ trav.after = 2
    /\ Len(trav.src) = 3
    /\ oom.rest # SubSeq(trav.src, 2, 3)

\* C10: map(op) calls op exactly once per element, on first and then on the
\* elements of rest in order, and returns a container of the same length
\* (never empty) whose i-th element is op of the i-th input element.
C10_Map ==
    last.op = "map" =>
        LET s == Logical(last.pre)
        IN  /\ last.calls = s
            /\ len(last.out) = len(last.pre)
            /\ len(last.out) >= 1
            /\ Logical(last.out) = [i \in 1..Len(s) |-> last.f[s[i]]]
            /\ live /\ oom = last.out

C10_Witness ==
    /\ last.op = "map"
    /\ len(last.pre) = 3
    /\ last.pre.first # last.pre.rest[1]
    /\ last.out # last.pre

\* C11: insert(index, item) with index > len() fails (the panic of the
\* underlying Vec::insert) without partially applying: first, rest and len()
\* are what they were before the call; and insert fails for no index in
\* 0..=len().
C11_InsertOutOfBounds ==
    last.op = "insert" =>
        /\ last.panicked <=> (last.index > len(last.pre))
        /\ last.panicked =>
            /\ oom = last.pre
            /\ oom.first = last.pre.first
            /\ oom.rest = last.pre.rest
            /\ len(oom) = len(last.pre)
            /\ live

C11_Witness ==
    /\ last.op = "insert"
    /\ last.panicked
    /\ last.index = len(last.pre) + 1
    /\ len(last.pre) = 2
    /\ last.item # last.pre.first

====
